---- MODULE Spec2Model ----
(***************************************************************************)
(* In-Car Monitoring Backend (src/app.py, src/run.py).                     *)
(*                                                                         *)
(* One uvicorn worker (run.py:13) runs the FastAPI handlers of app.py.    *)
(* Every handler is an "async def" without any await, so one handler runs  *)
(* to completion before the event loop starts the next one: handlers never *)
(* interleave with each other, whatever number of requests is waiting.     *)
(* What does interleave with the statements                                *)
(* of a handler is the environment: the wall clock (the local date rolls   *)
(* over), the file system (the logs directory is removed) and the storage  *)
(* (an open or a write fails).                                             *)
(*                                                                         *)
(* Time is modelled by the local calendar date alone (a day number):       *)
(* datetime.now() is <<"server", date>>.  uuid.uuid4() is modelled as a    *)
(* fresh number (collisions of random 128-bit values are neglected).       *)
(***************************************************************************)
EXTENDS Integers, Sequences, FiniteSets, TLC

\* Bounds of the model.
MaxReqs == 3      \* requests submitted in one run
MaxDate == 2      \* local calendar dates 1..MaxDate

Dates == 1..MaxDate

(***************************************************************************)
(* JSON values of a request body.  t is the JSON type ("absent": the key   *)
(* is not in the body), v the text of a scalar.                            *)
(***************************************************************************)
Absent == [t |-> "absent", v |-> ""]
JStr(s) == [t |-> "str", v |-> s]
JNum(s) == [t |-> "num", v |-> s]
JObj == [t |-> "obj", v |-> ""]

\* Strings that int() / float() parse.
NumericStrings == {"12", "7"}

\* MonitoringMetadata: field name -> declared type (app.py:35-41).
MetaKeys ==
    {"framesProcessed", "peopleDetected", "processingTimeSeconds",
     "videoSource", "inferenceTimeMs", "totalDetections"}

MonitoringMetadata ==
    [k \in MetaKeys |->
        CASE k = "framesProcessed" -> "int"
          [] k = "peopleDetected" -> "int"
          [] k = "processingTimeSeconds" -> "float"
          [] k = "videoSource" -> "str"
          [] k = "inferenceTimeMs" -> "float"
          [] k = "totalDetections" -> "int"]

(***************************************************************************)
(* pydantic's validation of one field (BaseModel, app.py:35-47): a value   *)
(* of the declared type is taken as it is, a string that parses as a       *)
(* number is converted to the declared int / float, a JSON number is a     *)
(* float as well as an int; anything else is a validation error.  The      *)
(* inputs are limited to values that pydantic 1 and 2 treat alike.         *)
(***************************************************************************)
\* Variant: a missing field is taken as valid (every field Optional).
FieldOk_Lenient(decl, val) ==
    \/ val.t = "absent"
    \/ CASE decl = "str" -> val.t = "str"
         [] decl \in {"int", "float"} ->
               \/ val.t = "num"
               \/ val.t = "str" /\ val.v \in NumericStrings

FieldOk(decl, val) ==
    CASE decl = "str" -> val.t = "str"
      [] decl \in {"int", "float"} ->
            \/ val.t = "num"
            \/ val.t = "str" /\ val.v \in NumericStrings

\* The validated value: the declared type with the text of the number.
Coerce(decl, val) == [t |-> IF decl = "str" THEN "str" ELSE decl, v |-> val.v]

\* The metadata of a body: t = "obj" with its fields in f, or absent / a scalar.
MetaOk(m) ==
    /\ m.t = "obj"
    /\ \A k \in MetaKeys : FieldOk(MonitoringMetadata[k], m.f[k])

\* request.metadata.dict() (app.py:118): the validated fields under the
\* names of the model, camelCase.
MetaDict(m) == [k \in MetaKeys |-> Coerce(MonitoringMetadata[k], m.f[k])]

\* SummaryLogRequest (app.py:43-47): timestamp is Optional with default None.
SummaryLogRequestOk(b) ==
    /\ FieldOk("str", b.session_id)
    /\ FieldOk("str", b.summary)
    /\ MetaOk(b.metadata)
    /\ b.timestamp.t \in {"absent", "str"}

(***************************************************************************)
(* Times.  None, a client string, or the server's now().                   *)
(***************************************************************************)
None == [src |-> "none", s |-> "", d |-> 0]
ClientTime(s) == [src |-> "client", s |-> s, d |-> 0]
Now(day) == [src |-> "server", s |-> "", d |-> day]

\* request.timestamp after validation: None when the key is absent.
RequestTimestamp(b) ==
    IF b.timestamp.t = "absent" THEN None ELSE ClientTime(b.timestamp.v)

\* Python truth value of request.timestamp: None and "" are false.
Truthy(ts) == ts.src # "none" /\ ~(ts.src = "client" /\ ts.s = "")

\* app.py:110: request.timestamp or datetime.now().isoformat()
EffectiveTimestamp(ts, day) == IF Truthy(ts) THEN ts ELSE Now(day)

(***************************************************************************)
(* Request bodies the clients send: the baseline body (session "a", no     *)
(* timestamp), a body of session "b" with a client timestamp, and every    *)
(* body that differs from the baseline in one field.                       *)
(***************************************************************************)
GoodFields ==
    [k \in MetaKeys |->
        CASE k = "framesProcessed" -> JNum("12")
          [] k = "peopleDetected" -> JNum("7")
          [] k = "processingTimeSeconds" -> JNum("7")
          [] k = "videoSource" -> JStr("cam")
          [] k = "inferenceTimeMs" -> JNum("12")
          [] k = "totalDetections" -> JNum("7")]

GoodMeta == [t |-> "obj", f |-> GoodFields]
NoMeta == [t |-> "absent", f |-> [k \in MetaKeys |-> Absent]]

MetaInputs ==
    { [GoodMeta EXCEPT !.f["framesProcessed"] = JStr("12")],    \* numeric string
      [GoodMeta EXCEPT !.f["framesProcessed"] = JStr("many")],  \* not a number
      [GoodMeta EXCEPT !.f["peopleDetected"] = Absent],         \* field omitted
      NoMeta }

BaseBody ==
    [session_id |-> JStr("a"), summary |-> JStr("s"),
     metadata |-> GoodMeta, timestamp |-> Absent]

Bodies ==
    {BaseBody}
    \cup {[BaseBody EXCEPT !.session_id = JStr("b"), !.timestamp = JStr("t1")]}
    \cup {[BaseBody EXCEPT !.session_id = x] : x \in {Absent, JObj}}
    \cup {[BaseBody EXCEPT !.summary = Absent]}
    \cup {[BaseBody EXCEPT !.metadata = m] : m \in MetaInputs}
    \cup {[BaseBody EXCEPT !.timestamp = x] : x \in {JStr(""), JObj}}

(***************************************************************************)
(* State.                                                                  *)
(***************************************************************************)
VARIABLES
    date,       \* the server's local calendar date (datetime.now())
    dirExists,  \* the directory logs/ exists
    files,      \* files[d]: logs/monitoring_logs_<d>.jsonl
    sent,       \* requests the clients have sent so far
    waiting,    \* requests received and not yet given to a handler
    pc,         \* the statement the running handler is at, "idle" when none runs
    loc,        \* the request and the local variables of the running handler
    nextUuid,   \* the next value of uuid.uuid4()
    faults,     \* storage faults so far
    last,       \* history: the latest response, with its request
    served,     \* history: the log-summary calls answered with success, in order
    todays      \* history: the logs/today responses since the last log-summary call

vars ==
    <<date, dirExists, files, sent, waiting, pc, loc, nextUuid, faults,
      last, served, todays>>

\* A daily file: lines ended by "\n", and tail: the file ends with a
\* fragment that no "\n" ends (what a failed write left).  A line is the
\* JSON text of a record (json), after such a fragment (frag) or not.
NoFile == [exists |-> FALSE, lines |-> <<>>, tail |-> FALSE]

NoRecord ==
    [log_id |-> 0, session_id |-> "", client_timestamp |-> None, summary |-> "",
     metadata |-> MetaDict(GoodMeta), timestamp |-> None, server_timestamp |-> None]

NoRequest == [kind |-> "", body |-> BaseBody]

NoLoc ==
    [req |-> NoRequest, log_id |-> 0, data |-> NoRecord, log_filename |-> 0,
     rolled |-> FALSE]

\* A response.  status is the HTTP status; the fields a response does not
\* carry hold 0 / None / <<>> / {}.  stats is the set of <<key, value>> of
\* the stats object.
NoResp ==
    [status |-> 0, tag |-> "", log_id |-> 0, timestamp |-> None, logs |-> <<>>,
     count |-> 0, log_file |-> 0, stats |-> {}]

\* The latest response r, the n-th of the run, to a request of kind kind;
\* day is the date of the file name the handler used, fault what the
\* storage did to its open-and-write.
NoLast == [n |-> 0, kind |-> "", r |-> NoResp, day |-> 0, fault |-> ""]

Answer(kind, r, day, fault) ==
    [n |-> last.n + 1, kind |-> kind, r |-> r, day |-> day, fault |-> fault]

\* A log-summary call answered with success: its body, the log_id and the
\* timestamp of its response, the date of the file name it used, and
\* whether the date changed between app.py:66 and app.py:69.
Served(l, r) ==
    [body |-> l.req.body, log_id |-> r.log_id, timestamp |-> r.timestamp,
     day |-> l.log_filename, rolled |-> l.rolled]

Init ==
    /\ date = 1
    /\ dirExists = TRUE          \* app.py:56 os.makedirs("logs", exist_ok=True)
    /\ files = [d \in Dates |-> NoFile]
    /\ sent = 0
    /\ waiting = 0
    /\ pc = "idle"
    /\ loc = NoLoc
    /\ nextUuid = 1
    /\ faults = 0
    /\ last = NoLast
    /\ served = <<>>
    /\ todays = <<>>

(***************************************************************************)
(* The environment.                                                        *)
(***************************************************************************)
\* A client sends a request; it waits until the event loop is free.
Submit ==
    /\ sent < MaxReqs
    /\ sent' = sent + 1
    /\ waiting' = waiting + 1
    /\ UNCHANGED <<date, dirExists, files, pc, loc, nextUuid, faults, last, served, todays>>

\* Midnight passes.  A handler between get_log_filename() (app.py:66) and
\* datetime.now() (app.py:69) has then seen two dates.
Tick ==
    /\ date < MaxDate
    /\ date' = date + 1
    /\ loc' = IF pc = "log_stamp" THEN [loc EXCEPT !.rolled = TRUE] ELSE loc
    /\ UNCHANGED <<dirExists, files, sent, waiting, pc, nextUuid, faults, last, served, todays>>

\* The directory logs/ is removed with the files in it.  Nothing in the
\* running process creates it again (os.makedirs runs at import only).
RemoveDir ==
    /\ dirExists
    /\ dirExists' = FALSE
    /\ files' = [d \in Dates |-> NoFile]
    /\ UNCHANGED <<date, sent, waiting, pc, loc, nextUuid, faults, last, served, todays>>

(***************************************************************************)
(* Log Store.                                                              *)
(***************************************************************************)
\* app.py:58-61: the daily file of the server's current local date.
\* Variant: the file is named by a date one day behind the local date
\* (datetime.utcnow() west of Greenwich, late in the day).
get_log_filename_Utc == IF date > 1 THEN date - 1 ELSE date

get_log_filename == date

\* open(log_filename, "a") + f.write(json.dumps(data) + "\n") (app.py:72-73):
\* the file is created when absent, the line goes after what the file holds.
\* Variant: the file is opened with "w": the line replaces what it held.
AppendLine_Truncate(f, data) ==
    [exists |-> TRUE, lines |-> <<[frag |-> FALSE, json |-> data]>>, tail |-> FALSE]

AppendLine(f, data) ==
    [exists |-> TRUE,
     lines |-> Append(f.lines, [frag |-> f.tail, json |-> data]),
     tail |-> FALSE]

\* The open succeeded and the write failed: nothing of the line, or a part
\* of it without its "\n", reached the file.
FailedWrite(f, partial) ==
    [exists |-> TRUE, lines |-> f.lines, tail |-> f.tail \/ partial]

\* What the storage does to one open-and-write.
Outcomes == {"ok", "open_fails", "write_fails", "write_partial"}

\* log_to_file's result (app.py:76 / app.py:79): open raises when logs/ is
\* absent or the storage refuses, write raises when the storage fails.
\* Variant: the except branch returns True as well.
log_to_file_Swallow(outcome) == TRUE

log_to_file(outcome) == dirExists /\ outcome = "ok"

\* The file after app.py:72-73.
FileAfter(f, data, outcome) ==
    CASE ~dirExists \/ outcome = "open_fails" -> f
      [] outcome = "write_fails" -> FailedWrite(f, FALSE)
      [] outcome = "write_partial" -> FailedWrite(f, TRUE)
      [] OTHER -> AppendLine(f, data)

\* for line in f: if line.strip(): json.loads(line) (app.py:150-152,
\* 178-180): json.loads raises on a line that is not one JSON object.
Readable(f) == ~f.tail /\ \A k \in 1..Len(f.lines) : ~f.lines[k].frag
ReadLogs(f) == [k \in 1..Len(f.lines) |-> f.lines[k].json]

(***************************************************************************)
(* POST /api/log-summary (app.py:100-137).                                 *)
(***************************************************************************)
\* The event loop takes a waiting request: FastAPI routes it and reads its
\* body.
Receive(kind, b) ==
    /\ pc = "idle" /\ waiting > 0
    /\ waiting' = waiting - 1
    /\ loc' = [NoLoc EXCEPT !.req = [kind |-> kind, body |-> b]]
    /\ pc' = kind
    /\ todays' = IF kind = "log" THEN <<>> ELSE todays
    /\ UNCHANGED <<date, dirExists, files, sent, nextUuid, faults, last, served>>

\* FastAPI validates the body against SummaryLogRequest before it calls the
\* handler: an invalid body is answered 422 and log_summary never runs.
RejectInvalid ==
    /\ pc = "log"
    /\ ~SummaryLogRequestOk(loc.req.body)
    /\ last' = Answer("log", [NoResp EXCEPT !.status = 422, !.tag = "validation"], 0, "")
    /\ pc' = "idle" /\ loc' = NoLoc
    /\ UNCHANGED <<date, dirExists, files, sent, waiting, nextUuid, faults, served, todays>>

\* app.py:107-120: log_id, timestamp, log_data.
LogData(b, id, day) ==
    [log_id |-> id,
     session_id |-> b.session_id.v,
     client_timestamp |-> RequestTimestamp(b),
     summary |-> b.summary.v,
     metadata |-> MetaDict(b.metadata),
     timestamp |-> EffectiveTimestamp(RequestTimestamp(b), day),
     server_timestamp |-> None]

log_summary ==
    /\ pc = "log"
    /\ SummaryLogRequestOk(loc.req.body)
    /\ loc' = [loc EXCEPT !.log_id = nextUuid,
                          !.data = LogData(loc.req.body, nextUuid, date)]
    /\ nextUuid' = nextUuid + 1
    /\ pc' = "log_name"
    /\ UNCHANGED <<date, dirExists, files, sent, waiting, faults, last, served, todays>>

\* app.py:66: log_filename = get_log_filename()
LogName ==
    /\ pc = "log_name"
    /\ loc' = [loc EXCEPT !.log_filename = get_log_filename]
    /\ pc' = "log_stamp"
    /\ UNCHANGED <<date, dirExists, files, sent, waiting, nextUuid, faults, last, served, todays>>

\* app.py:69: data["server_timestamp"] = datetime.now().isoformat()
LogStamp ==
    /\ pc = "log_stamp"
    /\ loc' = [loc EXCEPT !.data.server_timestamp = Now(date)]
    /\ pc' = "log_write"
    /\ UNCHANGED <<date, dirExists, files, sent, waiting, nextUuid, faults, last, served, todays>>

\* Variant: the response carries a second uuid4(), not the record's log_id.
LogResponse_FreshId(ok, l) ==
    IF ok
    THEN [NoResp EXCEPT !.status = 200, !.tag = "success",
                        !.log_id = l.log_id + 1, !.timestamp = l.data.timestamp]
    ELSE [NoResp EXCEPT !.status = 500, !.tag = "error"]

\* app.py:126-131 / app.py:133-137: the response of log_summary.
LogResponse(ok, l) ==
    IF ok
    THEN [NoResp EXCEPT !.status = 200, !.tag = "success",
                        !.log_id = l.log_id, !.timestamp = l.data.timestamp]
    ELSE [NoResp EXCEPT !.status = 500, !.tag = "error"]

\* app.py:72-79 and app.py:123-137: the append and the response.
LogWrite(outcome) ==
    /\ pc = "log_write"
    /\ faults' = IF outcome = "ok" THEN faults ELSE faults + 1
    /\ files' = [files EXCEPT ![loc.log_filename] = FileAfter(@, loc.data, outcome)]
    /\ last' = Answer("log", LogResponse(log_to_file(outcome), loc),
                      loc.log_filename, outcome)
    /\ served' = IF last'.r.status = 200
                 THEN Append(served, Served(loc, last'.r)) ELSE served
    /\ pc' = "idle" /\ loc' = NoLoc
    /\ UNCHANGED <<date, dirExists, sent, waiting, nextUuid, todays>>

(***************************************************************************)
(* GET /api/logs/today (app.py:139-161).                                   *)
(***************************************************************************)
\* The responses since the last log-summary call, the latest two of them.
Latest(s) == IF Len(s) > 2 THEN SubSeq(s, Len(s) - 1, Len(s)) ELSE s

\* app.py:143-146: log_filename = get_log_filename(); if not
\* os.path.exists(log_filename): no logs for today.
get_today_logs ==
    /\ pc = "today"
    /\ IF files[get_log_filename].exists
       THEN /\ loc' = [loc EXCEPT !.log_filename = get_log_filename]
            /\ pc' = "today_read"
            /\ UNCHANGED <<last, todays>>
       ELSE /\ last' = Answer("today", [NoResp EXCEPT !.status = 200, !.tag = "today_none"],
                              get_log_filename, "")
            /\ todays' = Latest(Append(todays, last'))
            /\ pc' = "idle" /\ loc' = NoLoc
    /\ UNCHANGED <<date, dirExists, files, sent, waiting, nextUuid, faults, served>>

\* Variant: get_log_filename() is called again for the open.
TodayResponse_Recompute(f, name) ==
    IF files[date].exists /\ Readable(files[date])
    THEN [NoResp EXCEPT !.status = 200, !.tag = "today", !.logs = ReadLogs(files[date]),
                        !.count = Len(ReadLogs(files[date])), !.log_file = date]
    ELSE [NoResp EXCEPT !.status = 500, !.tag = "error"]

\* app.py:148-161: the records of the file, or 500 when the open or a
\* json.loads raises.
TodayResponse(f, name) ==
    IF f.exists /\ Readable(f)
    THEN [NoResp EXCEPT !.status = 200, !.tag = "today", !.logs = ReadLogs(f),
                        !.count = Len(ReadLogs(f)), !.log_file = name]
    ELSE [NoResp EXCEPT !.status = 500, !.tag = "error"]

TodayRead ==
    /\ pc = "today_read"
    /\ last' = Answer("today", TodayResponse(files[loc.log_filename], loc.log_filename),
                      loc.log_filename, "")
    /\ todays' = Latest(Append(todays, last'))
    /\ pc' = "idle" /\ loc' = NoLoc
    /\ UNCHANGED <<date, dirExists, files, sent, waiting, nextUuid, faults, served>>

(***************************************************************************)
(* GET /api/stats (app.py:163-199).                                        *)
(***************************************************************************)
\* The number a validated metadata value holds.
NumberOf(val) == IF val.v = "12" THEN 12 ELSE IF val.v = "7" THEN 7 ELSE 0

\* metadata.get(key, 0) (app.py:185-186) on a stored metadata object.
MetaGet(meta, key) == IF key \in DOMAIN meta THEN NumberOf(meta[key]) ELSE 0

\* app.py:178-186: the loop over the records, from the last one back.
RECURSIVE SumOf(_, _)
SumOf(logs, key) ==
    IF logs = <<>> THEN 0
    ELSE MetaGet(logs[Len(logs)].metadata, key) + SumOf(SubSeq(logs, 1, Len(logs) - 1), key)

\* Variant: sessions is a list, every record counts.
Sessions_List(logs) == {<<k, logs[k].session_id>> : k \in 1..Len(logs)}

Sessions(logs) == {logs[k].session_id : k \in 1..Len(logs)}

\* app.py:188-196: the stats object.
StatsOf(logs) ==
    { <<"total_logs", Len(logs)>>,
      <<"unique_sessions", Cardinality(Sessions(logs))>>,
      <<"total_frames_processed", SumOf(logs, "frames_processed")>>,
      <<"total_people_detected", SumOf(logs, "people_detected")>> }

\* app.py:167-170: log_filename = get_log_filename(); if not
\* os.path.exists(log_filename): "stats": {}.
get_stats ==
    /\ pc = "stats"
    /\ IF files[get_log_filename].exists
       THEN /\ loc' = [loc EXCEPT !.log_filename = get_log_filename]
            /\ pc' = "stats_read"
            /\ UNCHANGED last
       ELSE /\ last' = Answer("stats", [NoResp EXCEPT !.status = 200, !.tag = "stats_none"],
                              get_log_filename, "")
            /\ pc' = "idle" /\ loc' = NoLoc
    /\ UNCHANGED <<date, dirExists, files, sent, waiting, nextUuid, faults, served, todays>>

\* Variant: a file without records is answered like a missing file.
StatsResponse_EmptyAsNone(f, name) ==
    IF f.exists /\ Readable(f)
    THEN IF f.lines = <<>>
         THEN [NoResp EXCEPT !.status = 200, !.tag = "stats_none"]
         ELSE [NoResp EXCEPT !.status = 200, !.tag = "stats",
                             !.stats = StatsOf(ReadLogs(f)), !.log_file = name]
    ELSE [NoResp EXCEPT !.status = 500, !.tag = "error"]

\* app.py:172-199.
StatsResponse(f, name) ==
    IF f.exists /\ Readable(f)
    THEN [NoResp EXCEPT !.status = 200, !.tag = "stats",
                        !.stats = StatsOf(ReadLogs(f)), !.log_file = name]
    ELSE [NoResp EXCEPT !.status = 500, !.tag = "error"]

StatsRead ==
    /\ pc = "stats_read"
    /\ last' = Answer("stats", StatsResponse(files[loc.log_filename], loc.log_filename),
                      loc.log_filename, "")
    /\ pc' = "idle" /\ loc' = NoLoc
    /\ UNCHANGED <<date, dirExists, files, sent, waiting, nextUuid, faults, served, todays>>

(***************************************************************************)
(* The system.                                                             *)
(***************************************************************************)
Next ==
    \/ Submit
    \/ Tick
    \/ RemoveDir
    \/ \E b \in Bodies : Receive("log", b)
    \/ Receive("today", BaseBody)
    \/ Receive("stats", BaseBody)
    \/ RejectInvalid
    \/ log_summary
    \/ LogName
    \/ LogStamp
    \/ \E o \in Outcomes : LogWrite(o)
    \/ get_today_logs
    \/ TodayRead
    \/ get_stats
    \/ StatsRead

Spec == Init /\ [][Next]_vars

(***************************************************************************)
(* Properties.                                                             *)
(*                                                                         *)
(* While logs/ exists, the file a read handler answered from is still what *)
(* it read as long as its response is the latest one: only LogWrite        *)
(* changes a file, and LogWrite answers.                                   *)
(***************************************************************************)
LogIds(logs) == {logs[k].log_id : k \in 1..Len(logs)}
ServedOn(d) == SelectSeq(served, LAMBDA e : e.day = d)
LogHandlerRuns == pc \in {"log_name", "log_stamp", "log_write"}

\* C1 as claimed: every valid log-summary request that the storage does not
\* fail is answered with success, no two successes carry the same log_id,
\* and every later logs/today response holds the log_id of every success,
\* whatever the server's local date is by then.
C1_Original ==
    /\ (last.kind = "log" /\ last.r.tag # "validation" /\ last.fault = "ok" /\ dirExists)
          => last.r.status = 200
    /\ \A i, j \in 1..Len(served) : i # j => served[i].log_id # served[j].log_id
    /\ (last.kind = "today" /\ dirExists /\ Readable(files[last.day]))
          => \A i \in 1..Len(served) :
                last.r.status = 200 /\ served[i].log_id \in LogIds(last.r.logs)

\* C1 amended: the same, for the logs/today calls that name the daily file
\* the record went to (the local date of the call is the date of the
\* append's file name).
C1_Thm ==
    /\ (last.kind = "log" /\ last.r.tag # "validation" /\ last.fault = "ok" /\ dirExists)
          => last.r.status = 200
    /\ \A i, j \in 1..Len(served) : i # j => served[i].log_id # served[j].log_id
    /\ (last.kind = "today" /\ dirExists /\ Readable(files[last.day]))
          => \A i \in 1..Len(served) :
                served[i].day = last.day
                   => last.r.status = 200 /\ served[i].log_id \in LogIds(last.r.logs)

C1_Witness ==
    /\ last.kind = "today" /\ dirExists /\ last.r.status = 200
    /\ Len(served) >= 2
    /\ \A i \in 1..Len(served) :
          served[i].day = last.day /\ served[i].log_id \in LogIds(last.r.logs)

(***************************************************************************)
(* C2.                                                                     *)
(***************************************************************************)
Omits(b) ==
    \/ b.session_id.t = "absent"
    \/ b.summary.t = "absent"
    \/ b.metadata.t = "absent"
    \/ b.metadata.t = "obj" /\ \E k \in MetaKeys : b.metadata.f[k].t = "absent"

DeclaredJsonType(decl) == IF decl = "str" THEN "str" ELSE "num"

\* A field that is present holds a JSON value of another type than declared.
WronglyTyped(b) ==
    \/ b.session_id.t \notin {"absent", "str"}
    \/ b.summary.t \notin {"absent", "str"}
    \/ b.metadata.t \notin {"absent", "obj"}
    \/ b.timestamp.t \notin {"absent", "str"}
    \/ b.metadata.t = "obj" /\ \E k \in MetaKeys :
          b.metadata.f[k].t \notin {"absent", DeclaredJsonType(MonitoringMetadata[k])}

\* A field that is present holds a value that the declared type cannot be
\* made of: no string for a string field, for a number field neither a
\* number nor a string that reads as one.
Unconvertible(b) ==
    \/ b.session_id.t \notin {"absent", "str"}
    \/ b.summary.t \notin {"absent", "str"}
    \/ b.metadata.t \notin {"absent", "obj"}
    \/ b.timestamp.t \notin {"absent", "str"}
    \/ b.metadata.t = "obj" /\ \E k \in MetaKeys :
          LET val == b.metadata.f[k] IN
          IF MonitoringMetadata[k] = "str"
          THEN val.t \notin {"absent", "str"}
          ELSE /\ val.t \notin {"absent", "num"}
               /\ ~(val.t = "str" /\ val.v \in NumericStrings)

\* The step that answers the log-summary request the handler holds.
AnswersLog == last'.n # last.n /\ last'.kind = "log"

\* C2 as claimed: a log-summary request that omits a required field or has
\* a wrongly typed field is answered 4xx and no daily file changes.
C2_Original ==
    [][(AnswersLog /\ (Omits(loc.req.body) \/ WronglyTyped(loc.req.body)))
          => (last'.r.status \in 400..499 /\ files' = files)]_vars

\* C2 amended: a log-summary request that omits a required field or has a
\* field whose value cannot be converted to the declared type is answered
\* 4xx and no daily file changes.
C2_Thm ==
    [][(AnswersLog /\ (Omits(loc.req.body) \/ Unconvertible(loc.req.body)))
          => (last'.r.status \in 400..499 /\ files' = files)]_vars

C2_Witness ==
    /\ last.kind = "log" /\ last.r.status = 422
    /\ \E d \in Dates : Len(files[d].lines) > 0

(***************************************************************************)
(* C3.                                                                     *)
(***************************************************************************)
\* The line is the complete record of the served request e.
IsRecordOf(line, e) ==
    /\ ~line.frag
    /\ line.json.log_id = e.log_id
    /\ line.json.session_id = e.body.session_id.v
    /\ line.json.summary = e.body.summary.v
    /\ \A k \in MetaKeys : line.json.metadata[k].v = e.body.metadata.f[k].v
    /\ line.json.timestamp = e.timestamp

\* C3: with the storage working, whatever number of valid log-summary
\* requests waited together and in whatever order they were handled, each
\* one handled so far was answered with success, and every daily file holds
\* exactly one line per request handled on its day, each the complete
\* record of that request, nothing truncated or merged.
C3_Thm ==
    (dirExists /\ faults = 0) =>
        /\ Len(served) = (nextUuid - 1) - (IF LogHandlerRuns THEN 1 ELSE 0)
        /\ \A d \in Dates :
              /\ Len(files[d].lines) = Len(ServedOn(d))
              /\ ~files[d].tail
              /\ \A k \in 1..Len(files[d].lines) :
                    IsRecordOf(files[d].lines[k], ServedOn(d)[k])

C3_Witness ==
    /\ dirExists /\ faults = 0 /\ waiting >= 1
    /\ \E d \in Dates : Len(files[d].lines) >= 2 /\ Len(ServedOn(d)) >= 2

(***************************************************************************)
(* C4.                                                                     *)
(***************************************************************************)
Zeros == {<<"unique_sessions", 0>>, <<"total_logs", 0>>}

\* C4 as claimed: when the day's file does not exist, or exists and holds
\* no records, stats answers without error and its stats object reports
\* unique_sessions = 0 and total_logs = 0.
C4_Original ==
    (/\ last.kind = "stats" /\ dirExists
     /\ \/ ~files[last.day].exists
        \/ files[last.day].lines = <<>> /\ ~files[last.day].tail)
       => last.r.status = 200 /\ Zeros \subseteq last.r.stats

\* C4 amended: when the day's file exists and is empty, stats answers
\* without error with unique_sessions = 0 and total_logs = 0; when the file
\* does not exist, stats answers without error with an empty stats object.
C4_Thm ==
    (last.kind = "stats" /\ dirExists) =>
        /\ ~files[last.day].exists
              => last.r.status = 200 /\ last.r.stats = {} /\ last.r.tag = "stats_none"
        /\ (files[last.day].exists /\ files[last.day].lines = <<>> /\ ~files[last.day].tail)
              => last.r.status = 200 /\ Zeros \subseteq last.r.stats

C4_Witness ==
    /\ last.kind = "stats" /\ dirExists
    /\ files[last.day].exists /\ files[last.day].lines = <<>> /\ ~files[last.day].tail
    /\ last.r.status = 200 /\ Zeros \subseteq last.r.stats

(***************************************************************************)
(* C5.                                                                     *)
(***************************************************************************)
SessionIdsOn(d) == {ServedOn(d)[k].body.session_id.v : k \in 1..Len(ServedOn(d))}

\* C5: after successful log-summary calls on a day (its file holds their
\* records and nothing else), stats reports total_logs = the number of
\* these records and unique_sessions = the number of distinct session_id
\* values of the requests.
C5_Thm ==
    (/\ last.kind = "stats" /\ dirExists
     /\ Len(ServedOn(last.day)) >= 1
     /\ Readable(files[last.day]))
       => /\ last.r.status = 200
          /\ <<"total_logs", Len(ServedOn(last.day))>> \in last.r.stats
          /\ <<"unique_sessions", Cardinality(SessionIdsOn(last.day))>> \in last.r.stats

C5_Witness ==
    /\ last.kind = "stats" /\ dirExists
    /\ Len(ServedOn(last.day)) = 2
    /\ <<"total_logs", 2>> \in last.r.stats
    /\ <<"unique_sessions", 1>> \in last.r.stats

(***************************************************************************)
(* C6.                                                                     *)
(***************************************************************************)
\* C6 as claimed: two logs/today calls with no log-summary call between
\* them return identical record sequences, whatever the local date does
\* between them.
C6_Original ==
    (Len(todays) = 2 /\ dirExists) =>
        /\ todays[1].r.status = todays[2].r.status
        /\ todays[1].r.logs = todays[2].r.logs

\* C6 amended: ... return identical record sequences when the server's
\* local date is the same at both calls.
C6_Thm ==
    (Len(todays) = 2 /\ dirExists /\ todays[1].day = todays[2].day) =>
        /\ todays[1].r.status = todays[2].r.status
        /\ todays[1].r.logs = todays[2].r.logs

C6_Witness ==
    /\ Len(todays) = 2 /\ dirExists /\ todays[1].day = todays[2].day
    /\ todays[1].r.logs # <<>>
    /\ todays[1].r.logs = todays[2].r.logs

(***************************************************************************)
(* C7.                                                                     *)
(***************************************************************************)
\* The records of the served request e in the daily files.
RecordsOf(e) ==
    {files[e.day].lines[k].json :
        k \in {j \in 1..Len(files[e.day].lines) : files[e.day].lines[j].json.log_id = e.log_id}}

\* C7: for every accepted request the timestamp of the response and of the
\* persisted record is the client's timestamp when the request carries one
\* (any string, the empty one too), the server's current time only when it
\* carries none; client_timestamp is a copy of the request's timestamp.
C7_Claim ==
    \A i \in 1..Len(served) :
        LET e == served[i]
            given == e.body.timestamp
        IN /\ given.t = "str" =>
                /\ e.timestamp = ClientTime(given.v)
                /\ \A r \in RecordsOf(e) :
                      r.timestamp = ClientTime(given.v) /\ r.client_timestamp = ClientTime(given.v)
           /\ given.t = "absent" =>
                /\ e.timestamp.src = "server"
                /\ \A r \in RecordsOf(e) :
                      r.timestamp.src = "server" /\ r.client_timestamp = None

(***************************************************************************)
(* C8.                                                                     *)
(***************************************************************************)
\* The step app.py:72-79, 123-137 put the line of the handler's record, and
\* nothing else, at the end of its daily file.
OneLineAppended ==
    /\ \A d \in Dates \ {loc.log_filename} : files'[d] = files[d]
    /\ Len(files'[loc.log_filename].lines) = Len(files[loc.log_filename].lines) + 1
    /\ SubSeq(files'[loc.log_filename].lines, 1, Len(files[loc.log_filename].lines))
          = files[loc.log_filename].lines
    /\ files'[loc.log_filename].lines[Len(files'[loc.log_filename].lines)].json.log_id
          = loc.log_id

NoLineAppended ==
    \A d \in Dates : files'[d].lines = files[d].lines

\* C8: a valid log-summary request is answered 5xx when the append failed
\* (no line reached the file) and with success, carrying the record's
\* log_id and effective timestamp, when exactly one line was appended;
\* nothing else happens.
C8_Thm ==
    [][(pc = "log_write" /\ pc' = "idle") =>
          \/ /\ OneLineAppended
             /\ last'.r.status = 200 /\ last'.r.tag = "success"
             /\ last'.r.log_id = loc.log_id
             /\ last'.r.timestamp = loc.data.timestamp
          \/ /\ NoLineAppended
             /\ last'.r.status \in 500..599]_vars

C8_Witness ==
    /\ Len(served) >= 1
    /\ last.kind = "log" /\ last.r.status = 500 /\ last.fault # "ok"

(***************************************************************************)
(* C9.                                                                     *)
(***************************************************************************)
\* C9: append succeeds whenever the storage works and the only obstacle is
\* that the day's file or the directory logs/ is absent at the call.
C9_Claim ==
    (last.kind = "log" /\ last.r.tag # "validation" /\ last.fault = "ok")
       => last.r.status = 200

(***************************************************************************)
(* C10.                                                                    *)
(***************************************************************************)
\* C10 as claimed: every record of the daily file of date D has a
\* server_timestamp of date D.
C10_Original ==
    \A d \in Dates : \A k \in 1..Len(files[d].lines) :
        files[d].lines[k].json.server_timestamp.d = d

\* C10 amended: every record of the daily file of date D has a
\* server_timestamp of date D, unless the local date changed between
\* get_log_filename() (app.py:66) and datetime.now() (app.py:69) of its
\* append: then its server_timestamp is of a later date than D.
C10_Thm ==
    \A d \in Dates : \A k \in 1..Len(files[d].lines) :
        LET r == files[d].lines[k].json IN
        /\ r.server_timestamp.src = "server"
        /\ \A i \in 1..Len(served) :
              served[i].log_id = r.log_id =>
                 IF served[i].rolled
                 THEN r.server_timestamp.d > d
                 ELSE r.server_timestamp.d = d

C10_Witness ==
    \E d \in Dates : \E k \in 1..Len(files[d].lines) : \E i \in 1..Len(served) :
        /\ served[i].log_id = files[d].lines[k].json.log_id
        /\ served[i].rolled
        /\ files[d].lines[k].json.server_timestamp.d > d

====
